---- MODULE Spec2Model ----
(***************************************************************************)
(* Model of libdap4/d4meta.c: the pass that builds netcdf-4 metadata from  *)
(* the NCD4node tree (NCD4_metabuild and the build* functions it drives).  *)
(*                                                                         *)
(* Strings are sequences of one-character strings, so that escaping,       *)
(* prefix tests and concatenation are computed character by character.     *)
(* The union ATOMICS is a sequence of 8 bytes in little-endian order.      *)
(* The destination store (the nc_* functions) is not part of d4meta.c; it  *)
(* is modelled from its interface: its state is the log of the calls it    *)
(* has answered.  malloc/strdup are total (they never return NULL).        *)
(***************************************************************************)
EXTENDS Integers, Sequences, FiniteSets, TLC

(***************************************************************************)
(* Bounds of the model                                                     *)
(***************************************************************************)
\* the store refuses the n-th call of one operation, n in 1..MaxFail
MaxFail == 2
\* longest map list of a variable
MaxMaps == 2
\* number of zero-size opaque type nodes of a schema
MaxOpaques == 2

(***************************************************************************)
(* netcdf.h / ncd4types.h constants used by d4meta.c                       *)
(***************************************************************************)
NC_NOERR == 0
NC_NAT == 0
NC_BYTE == 1
NC_CHAR == 2
NC_SHORT == 3
NC_INT == 4
NC_FLOAT == 5
NC_DOUBLE == 6
NC_UBYTE == 7
NC_USHORT == 8
NC_UINT == 9
NC_INT64 == 10
NC_UINT64 == 11
NC_STRING == 12
NC_OPAQUE == 14
NC_ENUM == 15
NC_MAX_ATOMIC_TYPE == NC_STRING
NC_SEQ == 13
NC_STRUCT == 16
NC_FIRSTUSERTYPEID == 32
NC_GLOBAL == 0 - 1
NC_EINVAL == 0 - 36
NC_ENAMEINUSE == 0 - 42
NC_EBADTYPE == 0 - 45
NC_ERANGE == 0 - 60
NC_EHDFERR == 0 - 101
\* sizeof(nc_vlen_t): a size_t and a pointer
SizeofVlen == 16
\* sizeof(char*)
SizeofPtr == 8

\* a null pointer (char* or NCD4node*)
NULL == <<"NULL">>
\* the process dies (a read through a null pointer)
Fault == 0 - 1

(***************************************************************************)
(* Strings                                                                 *)
(***************************************************************************)
UCARTAG == <<"_", "e", "d", "u", ".", "u", "c", "a", "r", ".">>
\* the prefix of the attributes that buildAttributes suppresses
UCARTAGNC4 == UCARTAG
UCARTAGVLEN == UCARTAG \o <<"v", "l", "e", "n">>
NC4TAGMAPS == UCARTAG \o <<"m", "a", "p", "s">>
BYTESTRING == <<"_", "b", "y", "t", "e", "s", "t", "r", "i", "n", "g">>
TAIL_T == <<"_", "t">>
TAIL_CMPD_T == <<"_", "c", "m", "p", "d", "_", "t">>

\* strncmp(s, prefix, strlen(prefix)) == 0
\* a comparison of the whole name (strcmp) in place of the prefix's
HasPrefixWhole(s, prefix) == s = prefix

HasPrefix(s, prefix) ==
    /\ Len(s) >= Len(prefix)
    /\ SubSeq(s, 1, Len(prefix)) = prefix

Digits == {"0", "1", "2", "3", "4", "5", "6", "7", "8", "9"}
DigitVal(c) ==
    CASE c = "0" -> 0 [] c = "1" -> 1 [] c = "2" -> 2 [] c = "3" -> 3
      [] c = "4" -> 4 [] c = "5" -> 5 [] c = "6" -> 6 [] c = "7" -> 7
      [] c = "8" -> 8 [] c = "9" -> 9

RECURSIVE ScanDigits(_, _, _, _)
\* reads the digits of s from position k on: [n |-> digits read, val |-> their value]
ScanDigits(s, k, n, acc) ==
    IF k <= Len(s) /\ s[k] \in Digits
    THEN ScanDigits(s, k + 1, n + 1, 10 * acc + DigitVal(s[k]))
    ELSE [n |-> n, val |-> acc]

RECURSIVE SkipSpace(_, _)
SkipSpace(s, k) == IF k <= Len(s) /\ s[k] = " " THEN SkipSpace(s, k + 1) ELSE k

\* sscanf(s, "%lld", &x) and sscanf(s, "%llu", &x): leading blanks, an
\* optional sign, then digits; whatever follows the digits is left unread.
\* [ok |-> sscanf returned 1, val |-> the integer read]
ScanInteger(s) ==
    LET k0 == SkipSpace(s, 1)
        signed == k0 <= Len(s) /\ s[k0] \in {"-", "+"}
        k1 == IF signed THEN k0 + 1 ELSE k0
        d == ScanDigits(s, k1, 0, 0)
    IN  [ok |-> d.n > 0,
         val |-> IF signed /\ s[k0] = "-" THEN 0 - d.val ELSE d.val]

(***************************************************************************)
(* union ATOMICS as 8 little-endian bytes                                  *)
(***************************************************************************)
Pow256(k) == CASE k = 0 -> 1 [] k = 1 -> 256 [] k = 2 -> 65536 [] k = 3 -> 16777216

\* byte k (0 = least significant) of the 64-bit two's complement of v
ByteOf(v, k) ==
    IF v >= 0
    THEN IF k > 3 THEN 0 ELSE (v \div Pow256(k)) % 256
    ELSE IF k > 3 THEN 255 ELSE 255 - ((((0 - v) - 1) \div Pow256(k)) % 256)

\* the 64-bit pattern of the integer v
Bits64(v) == [k \in 1..8 |-> ByteOf(v, k - 1)]

(***************************************************************************)
(* The NCD4node tree.  A node is a record; a node pointer is its index in  *)
(* the schema's node table (0 = no node).  Attribute and enum-constant     *)
(* nodes are held inline in their owner's list.                            *)
(***************************************************************************)
NCD4_GROUP == "NCD4_GROUP"
NCD4_DIM == "NCD4_DIM"
NCD4_TYPE == "NCD4_TYPE"
NCD4_VAR == "NCD4_VAR"

Node(sort, subsort, name, container) ==
    [sort |-> sort, subsort |-> subsort, name |-> name, container |-> container,
     basetype |-> 0, dims |-> <<>>, vars |-> <<>>, attributes |-> <<>>,
     maps |-> <<>>, groups |-> <<>>, econsts |-> <<>>,
     opaquesize |-> 0, dimsize |-> 0,
     origname |-> NULL, origgroup |-> 0, isdataset |-> FALSE]

Attr(name, basetype, values) ==
    [name |-> name, basetype |-> basetype, values |-> values]

Econst(name, v) == [name |-> name, ecvalue |-> Bits64(v)]

ISGROUP(sort) == sort = NCD4_GROUP
ISTYPE(sort) == sort = NCD4_TYPE
ISVAR(sort) == sort = NCD4_VAR

\* NCD4_typesize: the byte width of an atomic type
NCD4_typesize(tid) ==
    CASE tid \in {NC_BYTE, NC_CHAR, NC_UBYTE} -> 1
      [] tid \in {NC_SHORT, NC_USHORT} -> 2
      [] tid \in {NC_INT, NC_UINT, NC_FLOAT} -> 4
      [] tid \in {NC_INT64, NC_UINT64, NC_DOUBLE} -> 8
      [] tid = NC_STRING -> SizeofPtr
      [] OTHER -> 0

VARIABLES
    schema,     \* the node tree handed to NCD4_metabuild (never modified)
    failOp,     \* the store operation that the store refuses ("none": no refusal)
    failNth,    \* which call of failOp is refused
    ubTid,      \* what reading field1->basetype->meta.id through NULL yields
    byteOrder,  \* where the low half of a size_t stored over two ints lands
    allnodes,   \* builder->allnodes
    pc,         \* where build() stands
    i,          \* the loop index of build()
    ret,        \* ret of build()
    result,     \* what NCD4_metabuild returned
    meta,       \* meta.id, meta.cmpdid, meta.offset of every node
    log,        \* the destination-store calls issued so far, with their outcome
    heap,       \* the scratch allocations not yet freed
    nalloc,     \* number of allocations made so far
    assigned,   \* history: the nodes whose meta.id has been written
    writes,     \* history: every assignment to meta.id, meta.cmpdid, meta.offset
    rets        \* history: what each build step returned

vars == <<schema, failOp, failNth, ubTid, byteOrder, allnodes, pc, i, ret, result, meta,
          log, heap, nalloc, assigned, writes, rets>>

nd(n) == schema.nodes[n]

\* the handle the caller passes to NCD4_metabuild
TheNcid == 65536

(***************************************************************************)
(* The destination store.  Its state is the log of answered calls.         *)
(***************************************************************************)
TypeDefOps == {"def_enum", "def_opaque", "def_vlen", "def_compound"}
StoreOps == TypeDefOps \cup
    {"def_grp", "def_dim", "insert_enum", "insert_compound",
     "insert_array_compound", "def_var", "put_att"}

Call(op, grp, name) ==
    [op |-> op, grp |-> grp, name |-> name, xid |-> 0, tid |-> 0, size |-> 0,
     offset |-> 0, rank |-> 0, dims |-> <<>>, count |-> 0, data |-> <<>>,
     node |-> 0, attr |-> 0, reads |-> {}]

Succeeded(lg, ops) ==
    {k \in 1..Len(lg) : lg[k].op \in ops /\ lg[k].status = NC_NOERR}

\* the ids of the types named name that group grp holds
TypesNamed(lg, grp, name) ==
    {lg[k].result : k \in {j \in Succeeded(lg, TypeDefOps) :
                              lg[j].grp = grp /\ lg[j].name = name}}

\* the id the store gives to what a successful call defines
NewId(lg, c) ==
    CASE c.op \in TypeDefOps ->
            NC_FIRSTUSERTYPEID + Cardinality(Succeeded(lg, TypeDefOps))
      [] c.op = "def_dim" -> Cardinality(Succeeded(lg, {"def_dim"}))
      [] c.op = "def_grp" -> TheNcid + 1 + Cardinality(Succeeded(lg, {"def_grp"}))
      [] c.op = "def_var" ->
            Cardinality({k \in Succeeded(lg, {"def_var"}) : lg[k].grp = c.grp})
      [] OTHER -> 0

\* the status the store answers call c with
StoreStatus(lg, c) ==
    IF c.op = "inq_typeid"
    THEN IF TypesNamed(lg, c.grp, c.name) # {} THEN NC_NOERR ELSE NC_EBADTYPE
    ELSE IF /\ c.op = failOp
            /\ Cardinality({k \in 1..Len(lg) : lg[k].op = c.op}) + 1 = failNth
    THEN NC_EHDFERR
    ELSE IF c.op \in TypeDefOps /\ c.name = NULL THEN NC_EINVAL
    ELSE IF c.op \in TypeDefOps /\ TypesNamed(lg, c.grp, c.name) # {}
    THEN NC_ENAMEINUSE
    ELSE NC_NOERR

\* issue call c: the program state with the answered call appended to the log
Issue(st, c) ==
    LET status == StoreStatus(st.log, c)
        res == IF c.op = "inq_typeid"
               THEN IF status = NC_NOERR
                    THEN CHOOSE t \in TypesNamed(st.log, c.grp, c.name) : TRUE
                    ELSE 0
               ELSE IF status = NC_NOERR THEN NewId(st.log, c) ELSE 0
        e == [op |-> c.op, grp |-> c.grp, name |-> c.name, xid |-> c.xid,
              tid |-> c.tid, size |-> c.size, offset |-> c.offset,
              rank |-> c.rank, dims |-> c.dims, count |-> c.count,
              data |-> c.data, node |-> c.node, attr |-> c.attr,
              reads |-> c.reads, known |-> st.assigned,
              status |-> status, result |-> res]
    IN  [st EXCEPT !.log = Append(@, e)]

Last(lg) == lg[Len(lg)]

(***************************************************************************)
(* Program state threaded through the build functions                     *)
(***************************************************************************)
\* *(&node->meta.id) = v
SetId(st, n, v) ==
    [st EXCEPT !.meta[n].id = v, !.assigned = @ \cup {n},
               !.writes = Append(@, [node |-> n, slot |-> "id", value |-> v])]

\* malloc, strdup, nclistnew, ncbytesnew: the new block is number st.nalloc + 1
Alloc(st, kind) ==
    [st EXCEPT !.nalloc = @ + 1,
               !.heap = @ \cup {[id |-> st.nalloc + 1, kind |-> kind]}]

\* free, nullfree, nclistfree, ncbytesfree of block p (0 = NULL: nothing freed)
Free(st, p) == [st EXCEPT !.heap = {b \in @ : b.id # p}]

\* groupFor: the first enclosing group
RECURSIVE groupFor(_)
groupFor(n) == IF nd(n).sort # NCD4_GROUP THEN groupFor(nd(n).container) ELSE n

(***************************************************************************)
(* Utilities of d4meta.c                                                   *)
(***************************************************************************)
\* what backslashEscape writes for one character
escapeChar(c) ==
    IF c \in {"\\", "/", ".", "@"} THEN <<"\\", "\\">> ELSE <<c>>

RECURSIVE backslashEscape(_)
backslashEscape(s) ==
    IF s = <<>> THEN <<>> ELSE escapeChar(Head(s)) \o backslashEscape(Tail(s))

\* the path that getFieldFQN collects: from below the enclosing group down to n
RECURSIVE fieldPath(_)
fieldPath(n) ==
    IF ISGROUP(nd(n).sort) THEN <<>> ELSE Append(fieldPath(nd(n).container), n)

\* the loop of getFieldFQN over path[k..]: each escaped name is allocated,
\* appended to fqn (after a '.' but for the first) and freed
RECURSIVE fqnLoop(_, _, _, _)
fqnLoop(st, path, k, fqn) ==
    IF k > Len(path) THEN [st |-> st, fqn |-> fqn]
    ELSE fqnLoop(Free(Alloc(st, "escaped"), st.nalloc + 1), path, k + 1,
                 fqn \o (IF k > 1 THEN <<".">> ELSE <<>>)
                     \o backslashEscape(nd(path[k]).name))

\* the end of getFieldFQN, r being what the loop left and fqnp the NCbytes:
\* result = ncbytesextract(fqn); ncbytesfree(fqn).  The path list stays.
fqnExtract(r, fqnp, tail) ==
    [st |-> Free(Alloc(r.st, "name"), fqnp),
     name |-> r.fqn \o tail,
     ptr |-> r.st.nalloc + 1]

\* getFieldFQN: [st, name |-> the string, ptr |-> the block holding it]
getFieldFQN(st, field, tail) ==
    fqnExtract(fqnLoop(Alloc(Alloc(st, "path"), "fqn"), fieldPath(field), 1, <<>>),
               st.nalloc + 2, tail)

\* getDimrefs that stores the sizes of the dimensions in place of their ids
getDimrefsSizes(m, var) ==
    [k \in 1..Len(nd(var).dims) |-> nd(nd(var).dims[k]).dimsize]

\* getDimrefs: the ids of the dimensions of var, in order
getDimrefs(m, var) == [k \in 1..Len(nd(var).dims) |-> m[nd(var).dims[k]].id]

\* getDimsizes stores size_t values through its size_t* parameter
getDimsizes(var) == [k \in 1..Len(nd(var).dims) |-> nd(nd(var).dims[k]).dimsize]

\* buildCompound passes getDimsizes an int array: with 8-byte size_t and
\* 4-byte int, size k lands in the ints 2k-1 and 2k, its low half in the
\* first of them on a little-endian build and in the second on a big-endian
\* one; the other int holds the high half, 0.  What the first `rank' ints
\* then hold:
intDimsizes(var) ==
    LET sz == getDimsizes(var)
    IN  [k \in 1..Len(sz) |->
            IF byteOrder = "little"
            THEN IF k % 2 = 1 THEN sz[(k + 1) \div 2] ELSE 0
            ELSE IF k % 2 = 0 THEN sz[k \div 2] ELSE 0]

\* computeTypeSize that takes an enumeration for an int instead of following
\* it to its base type
computeTypeSizeEnumInt(m, type) ==
    IF nd(type).sort # NCD4_TYPE THEN 0
    ELSE CASE nd(type).subsort = NC_OPAQUE ->
                IF nd(type).opaquesize = 0 THEN SizeofVlen ELSE nd(type).opaquesize
           [] nd(type).subsort = NC_ENUM -> NCD4_typesize(NC_INT)
           [] nd(type).subsort = NC_SEQ -> SizeofVlen
           [] nd(type).subsort = NC_STRUCT -> m[type].offset
           [] OTHER -> NCD4_typesize(m[type].id)

RECURSIVE computeTypeSize(_, _)
computeTypeSize(m, type) ==
    IF nd(type).sort # NCD4_TYPE THEN 0
    ELSE CASE nd(type).subsort = NC_OPAQUE ->
                IF nd(type).opaquesize = 0 THEN SizeofVlen ELSE nd(type).opaquesize
           [] nd(type).subsort = NC_ENUM -> computeTypeSize(m, nd(type).basetype)
           [] nd(type).subsort = NC_SEQ -> SizeofVlen
           [] nd(type).subsort = NC_STRUCT -> m[type].offset
           [] OTHER -> NCD4_typesize(m[type].id)

\* node->meta.offset = v
SetOffset(st, n, v) ==
    [st EXCEPT !.meta[n].offset = v,
               !.writes = Append(@, [node |-> n, slot |-> "offset", value |-> v])]

\* computeOffsets from field k on, the running offset being `offset'
RECURSIVE computeOffsetsFrom(_, _, _, _)
computeOffsetsFrom(st, cmpd, k, offset) ==
    IF k > Len(nd(cmpd).vars) THEN SetOffset(st, cmpd, offset)
    ELSE LET field == nd(cmpd).vars[k]
             s1 == IF nd(field).subsort = NC_STRUCT
                   THEN computeOffsetsFrom(st, nd(field).basetype, 1, 0)
                   ELSE st
             size == IF nd(field).subsort = NC_SEQ THEN SizeofVlen
                     ELSE computeTypeSize(s1.meta, nd(field).basetype)
         IN  computeOffsetsFrom(SetOffset(s1, field, offset), cmpd, k + 1,
                                offset + size)

computeOffsets(st, cmpd) == computeOffsetsFrom(st, cmpd, 1, 0)

(***************************************************************************)
(* Attribute values.  A union ATOMICS is a record: kind "bits" holds the   *)
(* 8 bytes of an integer, "f64"/"f32" a floating value (num), "ptr" a     *)
(* char* (the block ptr holding str), "indet" an unset union.              *)
(***************************************************************************)
Atomics(kind, bits, num, ptr, str) ==
    [kind |-> kind, bits |-> bits, num |-> num, ptr |-> ptr, str |-> str]
BitsOf(v) == Atomics("bits", Bits64(v), 0, 0, <<>>)
Indeterminate == Atomics("indet", <<>>, 0, 0, <<>>)

SignedTypes == {NC_BYTE, NC_SHORT, NC_INT, NC_INT64}
UnsignedTypes == {NC_UBYTE, NC_USHORT, NC_UINT, NC_UINT64}

\* downConvert: the narrowing cast stored back at the start of the union
downConvert(conv, subsort) ==
    CASE subsort \in SignedTypes \cup UnsignedTypes /\ conv.kind = "bits" ->
            LET w == NCD4_typesize(subsort)
            IN  [conv EXCEPT !.bits =
                    [k \in 1..8 |-> IF k <= w THEN conv.bits[k] ELSE @[k]]]
      [] subsort = NC_FLOAT /\ conv.kind = "f64" -> [conv EXCEPT !.kind = "f32"]
      [] OTHER -> conv

\* convertString, r being what sscanf read from s: [st, ret, conv]
convertScanned(st, conv, subsort, s, r) ==
    CASE subsort \in SignedTypes \cup UnsignedTypes ->
            IF ~r.ok THEN [st |-> st, ret |-> NC_ERANGE, conv |-> conv]
            ELSE [st |-> st, ret |-> NC_NOERR,
                  conv |-> downConvert(BitsOf(r.val), subsort)]
      [] subsort \in {NC_FLOAT, NC_DOUBLE} ->
            IF ~r.ok THEN [st |-> st, ret |-> NC_ERANGE, conv |-> conv]
            ELSE [st |-> st, ret |-> NC_NOERR,
                  conv |-> downConvert(Atomics("f64", <<>>, r.val, 0, <<>>),
                                       subsort)]
      [] subsort = NC_STRING ->
            [st |-> Alloc(st, "strdup"), ret |-> NC_NOERR,
             conv |-> Atomics("ptr", <<>>, 0, st.nalloc + 1, s)]
      [] OTHER -> [st |-> st, ret |-> NC_NOERR, conv |-> conv]

convertString(st, conv, subsort, s) ==
    convertScanned(st, conv, subsort, s, ScanInteger(s))

\* copyAtomic that copies the whole union whatever len says
copyAtomicWhole(conv, type, len) == conv

\* copyAtomic: the len bytes at the start of the union
copyAtomic(conv, type, len) ==
    IF conv.kind = "bits" THEN [conv EXCEPT !.bits = SubSeq(@, 1, len)] ELSE conv

\* index of the first enum constant from k on named name, 0 if none
RECURSIVE firstNamed(_, _, _)
firstNamed(ecs, k, name) ==
    IF k > Len(ecs) THEN 0
    ELSE IF ecs[k].name = name THEN k ELSE firstNamed(ecs, k + 1, name)

\* index of the first enum constant from k on whose u64 is u64, 0 if none
RECURSIVE firstValued(_, _, _)
firstValued(ecs, k, u64) ==
    IF k > Len(ecs) THEN 0
    ELSE IF ecs[k].ecvalue = u64 THEN k ELSE firstValued(ecs, k + 1, u64)

\* decodeEconst without the test of match against NULL: the converter
\* is left as it was when no constant matched
econstMatchedUnchecked(st, ecs, match, conv) ==
    IF match = 0 THEN [st |-> st, ret |-> NC_NOERR, conv |-> conv]
    ELSE [st |-> st, ret |-> NC_NOERR,
          conv |-> Atomics("bits", ecs[match].ecvalue, 0, 0, <<>>)]

\* the end of decodeEconst, match being the index of the constant found
econstMatched(st, ecs, match, conv) ==
    IF match = 0 THEN [st |-> st, ret |-> NC_EINVAL, conv |-> conv]
    ELSE [st |-> st, ret |-> NC_NOERR,
          conv |-> Atomics("bits", ecs[match].ecvalue, 0, 0, <<>>)]

\* decodeEconst when no name matched, n being what convertString yielded
econstByValue(n, ecs, conv) ==
    IF n.ret # NC_NOERR THEN [st |-> n.st, ret |-> n.ret, conv |-> conv]
    ELSE econstMatched(n.st, ecs, firstValued(ecs, 1, n.conv.bits), conv)

\* decodeEconst: [st, ret, conv]
decodeEconst(st, enumtype, nameorval, conv) ==
    IF firstNamed(nd(enumtype).econsts, 1, nameorval) # 0
    THEN econstMatched(st, nd(enumtype).econsts,
                       firstNamed(nd(enumtype).econsts, 1, nameorval), conv)
    ELSE econstByValue(convertString(st, Indeterminate,
                                     nd(nd(enumtype).basetype).subsort, nameorval),
                       nd(enumtype).econsts, conv)

\* the type whose width compileAttrValues encodes with
TrueBase(basetype) ==
    IF nd(basetype).subsort = NC_ENUM THEN nd(basetype).basetype ELSE basetype

RECURSIVE compileLoop(_, _, _, _, _, _)
\* one round of the loop, c being what decodeEconst or convertString yielded
compileValue(c, basetype, values, k, data) ==
    IF c.ret # NC_NOERR
    THEN [st |-> c.st,
          ret |-> IF nd(basetype).subsort = NC_ENUM THEN c.ret ELSE NC_EBADTYPE,
          data |-> data]
    ELSE compileLoop(c.st, basetype, values, k + 1,
                     downConvert(c.conv, nd(TrueBase(basetype)).subsort),
                     Append(data,
                            copyAtomic(downConvert(c.conv,
                                                   nd(TrueBase(basetype)).subsort),
                                       c.st.meta[TrueBase(basetype)].id,
                                       NCD4_typesize(c.st.meta[TrueBase(basetype)].id))))

\* the loop of compileAttrValues from value k on: [st, ret, data]
compileLoop(st, basetype, values, k, conv, data) ==
    IF k > Len(values) THEN [st |-> st, ret |-> NC_NOERR, data |-> data]
    ELSE compileValue(IF nd(basetype).subsort = NC_ENUM
                      THEN decodeEconst(st, basetype, values[k], conv)
                      ELSE convertString(st, conv, nd(basetype).subsort, values[k]),
                      basetype, values, k, data)

\* the end of compileAttrValues: *memoryp is set only when the loop succeeded
compiled(r, memory) ==
    [st |-> r.st, ret |-> r.ret,
     memory |-> IF r.ret = NC_NOERR THEN memory ELSE 0,
     data |-> r.data]

\* compileAttrValues: [st, ret, memory |-> what *memoryp holds on return, data]
compileAttrValues(st, basetype, values) ==
    IF \/ ~ISTYPE(nd(TrueBase(basetype)).sort)
       \/ st.meta[TrueBase(basetype)].id > NC_MAX_ATOMIC_TYPE
    THEN [st |-> st, ret |-> NC_EBADTYPE, memory |-> 0, data |-> <<>>]
    ELSE compiled(compileLoop(Alloc(st, "attrmem"), basetype, values, 1,
                              Indeterminate, <<>>),
                  st.nalloc + 1)

(***************************************************************************)
(* The build functions.  Each yields [st |-> the state it leaves,          *)
(* ret |-> the status it returns].  A function that goes on after a call   *)
(* is split where the call returns: the second part takes the outcome of   *)
(* the call as a parameter.                                                *)
(***************************************************************************)
Ok(st) == [st |-> st, ret |-> NC_NOERR]
Err(st, code) == [st |-> st, ret |-> code]

\* NCCHECK(nc_def_...(..., &node->meta.id)), s1 being the state after the call
Defined(s1, n) ==
    IF Last(s1.log).status # NC_NOERR THEN Err(s1, Last(s1.log).status)
    ELSE Ok(SetId(s1, n, Last(s1.log).result))

RECURSIVE buildGroupsFrom(_, _, _)
\* after the recursion into subgroup k returned r
groupBuilt(r, parent, k) ==
    IF r.ret # NC_NOERR THEN r ELSE buildGroupsFrom(r.st, parent, k + 1)

\* buildGroups without the recursion into the subgroup just created
groupDefinedFlat(d, parent, g, k) ==
    IF d.ret # NC_NOERR THEN d ELSE buildGroupsFrom(d.st, parent, k + 1)

\* after subgroup g (the k-th) got its id, with outcome d
groupDefined(d, parent, g, k) ==
    IF d.ret # NC_NOERR THEN d
    ELSE groupBuilt(buildGroupsFrom(d.st, g, 1), parent, k)

\* buildGroups(builder, parent) from subgroup k on
buildGroupsFrom(st, parent, k) ==
    IF k > Len(nd(parent).groups) THEN Ok(st)
    ELSE groupDefined(
            IF nd(nd(parent).groups[k]).isdataset
            THEN Ok(SetId(st, nd(parent).groups[k], TheNcid))
            ELSE Defined(Issue(st, [Call("def_grp", st.meta[parent].id,
                                         nd(nd(parent).groups[k]).name)
                                      EXCEPT !.node = nd(parent).groups[k],
                                             !.reads = {parent}]),
                         nd(parent).groups[k]),
            parent, nd(parent).groups[k], k)

buildGroups(st, parent) == buildGroupsFrom(st, parent, 1)

buildDimension(st, dim) ==
    Defined(Issue(st, [Call("def_dim", st.meta[groupFor(dim)].id, nd(dim).name)
                         EXCEPT !.size = nd(dim).dimsize, !.node = dim,
                                !.reads = {groupFor(dim)}]),
            dim)

RECURSIVE insertEconstsFrom(_, _, _)
\* after nc_insert_enum of constant k left s1
econstInserted(s1, en, k) ==
    IF Last(s1.log).status # NC_NOERR THEN Err(s1, Last(s1.log).status)
    ELSE insertEconstsFrom(s1, en, k + 1)

\* the loop of buildEnumeration from constant k on
insertEconstsFrom(st, en, k) ==
    IF k > Len(nd(en).econsts) THEN Ok(st)
    ELSE econstInserted(
            Issue(st, [Call("insert_enum", st.meta[groupFor(en)].id,
                            nd(en).econsts[k].name)
                         EXCEPT !.xid = st.meta[en].id,
                                !.data = <<nd(en).econsts[k].ecvalue>>,
                                !.node = en, !.reads = {groupFor(en), en}]),
            en, k)

\* after nc_def_enum, with outcome d
enumDefined(d, en) ==
    IF d.ret # NC_NOERR THEN d ELSE insertEconstsFrom(d.st, en, 1)

buildEnumeration(st, en) ==
    enumDefined(
        Defined(Issue(st, [Call("def_enum", st.meta[groupFor(en)].id, nd(en).name)
                             EXCEPT !.tid = st.meta[nd(en).basetype].id,
                                    !.node = en,
                                    !.reads = {groupFor(en), nd(en).basetype}]),
                en),
        en)

\* the call buildOpaque makes for a zero-size opaque type
bytestringCall(st, op) ==
    [Call("def_vlen", st.meta[schema.root].id, BYTESTRING)
       EXCEPT !.tid = NC_UBYTE, !.node = op, !.reads = {schema.root}]

\* the group and the name buildOpaque defines a fixed-size opaque type under
opaqueGroup(op) ==
    IF nd(op).origname # NULL THEN nd(op).origgroup ELSE groupFor(op)
opaqueName(op) ==
    IF nd(op).origname # NULL THEN nd(op).origname ELSE nd(op).name

buildOpaque(st, op) ==
    Defined(Issue(st, IF nd(op).opaquesize > 0
                      THEN [Call("def_opaque", st.meta[opaqueGroup(op)].id,
                                 opaqueName(op))
                              EXCEPT !.size = nd(op).opaquesize, !.node = op,
                                     !.reads = {opaqueGroup(op)}]
                      ELSE bytestringCall(st, op)),
            op)

\* NCD4_makeFQN (d4util.c): "/group/.../name", the names escaped
RECURSIVE groupPath(_)
groupPath(n) ==
    IF n = 0 \/ nd(n).isdataset THEN <<>>
    ELSE groupPath(nd(n).container) \o <<"/">> \o backslashEscape(nd(n).name)

RECURSIVE dottedPath(_, _)
dottedPath(path, k) ==
    IF k > Len(path) THEN <<>>
    ELSE (IF k > 1 THEN <<".">> ELSE <<>>)
            \o backslashEscape(nd(path[k]).name) \o dottedPath(path, k + 1)

NCD4_makeFQN(n) ==
    IF ISGROUP(nd(n).sort) THEN groupPath(n)
    ELSE groupPath(groupFor(n)) \o <<"/">> \o dottedPath(fieldPath(n), 1)

\* the inner loop of buildMaps: one allocated name per map reference
RECURSIVE mapNamesFrom(_, _, _, _)
mapNamesFrom(st, var, k, names) ==
    IF k > Len(nd(var).maps) THEN [st |-> st, names |-> names]
    ELSE mapNamesFrom(Alloc(st, "mapfqn"), var, k + 1,
                      Append(names, NCD4_makeFQN(nd(var).maps[k])))

\* freeStringMemory(mem, count): the count strings, then the array
freeStringMemory(st, memory, count) ==
    [st EXCEPT !.heap = {b \in @ : ~(b.id \in memory..(memory + count))}]

\* buildMaps with a loop variable of its own for the inner loop: the outer
\* loop then goes round once per map reference
mapsNextIndexOwn(k, count) == k + 1

\* the value of the loop variable i of buildMaps when the outer loop tests it
\* again: the inner loop shares i and leaves it at count, then i++
mapsNextIndex(k, count) == count + 1

RECURSIVE buildMapsFrom(_, _, _)
\* after nc_put_att left s2: freeStringMemory, NCCHECK, next round
mapsPut(s2, memory, var, k) ==
    IF Last(s2.log).status # NC_NOERR
    THEN Err(freeStringMemory(s2, memory, Len(nd(var).maps)), Last(s2.log).status)
    ELSE buildMapsFrom(freeStringMemory(s2, memory, Len(nd(var).maps)), var,
                       mapsNextIndex(k, Len(nd(var).maps)))

\* after the inner loop left r: the nc_put_att of the names
mapsNamed(r, memory, var, k) ==
    mapsPut(Issue(r.st, [Call("put_att", r.st.meta[groupFor(var)].id, NC4TAGMAPS)
                           EXCEPT !.xid = r.st.meta[var].id, !.tid = NC_STRING,
                                  !.count = Len(nd(var).maps), !.data = r.names,
                                  !.node = var, !.reads = {groupFor(var), var}]),
            memory, var, k)

\* the outer loop of buildMaps with i = k
buildMapsFrom(st, var, k) ==
    IF k >= Len(nd(var).maps) THEN Ok(st)
    ELSE mapsNamed(mapNamesFrom(Alloc(st, "maps"), var, 1, <<>>),
                   st.nalloc + 1, var, k)

buildMaps(st, var) == buildMapsFrom(st, var, 0)

\* the variable id buildAttributes puts the attributes under
attrVarid(st, varorgroup) ==
    IF ISGROUP(nd(varorgroup).sort) THEN NC_GLOBAL ELSE st.meta[varorgroup].id

RECURSIVE buildAttributesFrom(_, _, _)
\* after nc_put_att of attribute k left s1: NCCHECK, nullfree(memory), next
attrPut(s1, memory, varorgroup, k) ==
    IF Last(s1.log).status # NC_NOERR THEN Err(s1, Last(s1.log).status)
    ELSE buildAttributesFrom(Free(s1, memory), varorgroup, k + 1)

\* after compileAttrValues of attribute k yielded c
attrCompiled(c, varorgroup, k) ==
    IF c.ret # NC_NOERR THEN Err(Free(c.st, c.memory), NC_ERANGE)
    ELSE attrPut(
            Issue(c.st,
                  [Call("put_att", c.st.meta[groupFor(varorgroup)].id,
                        nd(varorgroup).attributes[k].name)
                     EXCEPT !.xid = attrVarid(c.st, varorgroup),
                            !.tid = c.st.meta[nd(varorgroup).attributes[k].basetype].id,
                            !.count = Len(nd(varorgroup).attributes[k].values),
                            !.data = c.data, !.node = varorgroup, !.attr = k,
                            !.reads = {groupFor(varorgroup),
                                       nd(varorgroup).attributes[k].basetype}
                                      \cup (IF ISGROUP(nd(varorgroup).sort) THEN {}
                                            ELSE {varorgroup})]),
            c.memory, varorgroup, k)

\* the loop of buildAttributes from attribute k on
buildAttributesFrom(st, varorgroup, k) ==
    IF k > Len(nd(varorgroup).attributes) THEN Ok(st)
    ELSE IF HasPrefix(nd(varorgroup).attributes[k].name, UCARTAGNC4)
    THEN buildAttributesFrom(st, varorgroup, k + 1)
    ELSE attrCompiled(compileAttrValues(st, nd(varorgroup).attributes[k].basetype,
                                        nd(varorgroup).attributes[k].values),
                      varorgroup, k)

buildAttributes(st, varorgroup) == buildAttributesFrom(st, varorgroup, 1)

\* after buildAttributes returned a
attributesBuilt(a, var) == IF a.ret # NC_NOERR THEN a ELSE buildMaps(a.st, var)

buildMetaData(st, var) == attributesBuilt(buildAttributes(st, var), var)

RECURSIVE insertFieldsFrom(_, _, _, _)
\* after the insertion of field k left s1
fieldInserted(s1, cmpdtype, group, k) ==
    IF Last(s1.log).status # NC_NOERR THEN Err(s1, Last(s1.log).status)
    ELSE insertFieldsFrom(s1, cmpdtype, group, k + 1)

\* the call that inserts field into cmpdtype
insertCall(st, cmpdtype, group, field, k) ==
    [Call(IF Len(nd(field).dims) = 0 THEN "insert_compound"
          ELSE "insert_array_compound",
          st.meta[group].id, nd(field).name)
       EXCEPT !.xid = st.meta[cmpdtype].id,
              !.offset = st.meta[field].offset,
              !.tid = st.meta[nd(field).basetype].id,
              !.rank = Len(nd(field).dims),
              !.dims = IF Len(nd(field).dims) = 0 THEN <<>> ELSE intDimsizes(field),
              !.node = cmpdtype, !.attr = k,
              !.reads = {group, cmpdtype, nd(field).basetype}]

\* the field loop of buildCompound from field k on
insertFieldsFrom(st, cmpdtype, group, k) ==
    IF k > Len(nd(cmpdtype).vars) THEN Ok(st)
    ELSE fieldInserted(Issue(st, insertCall(st, cmpdtype, group,
                                            nd(cmpdtype).vars[k], k)),
                       cmpdtype, group, k)

\* after nc_def_compound, with outcome d
compoundDefined(d, cmpdtype, group) ==
    IF d.ret # NC_NOERR THEN d ELSE insertFieldsFrom(d.st, cmpdtype, group, 1)

\* after computeOffsets left s1
offsetsComputed(s1, cmpdtype, group, name) ==
    compoundDefined(
        Defined(Issue(s1, [Call("def_compound", s1.meta[group].id, name)
                             EXCEPT !.size = s1.meta[cmpdtype].offset,
                                    !.node = cmpdtype, !.reads = {group}]),
                cmpdtype),
        cmpdtype, group)

buildCompound(st, cmpdtype, group, name) ==
    offsetsComputed(computeOffsets(st, cmpdtype), cmpdtype, group, name)

\* nc_inq_typeid(group->meta.id, name, &tid)
InqTypeid(st, group, name, node) ==
    Issue(st, [Call("inq_typeid", st.meta[group].id, name)
                 EXCEPT !.node = node, !.reads = {group}])

\* name = strdup(node->nc4.orig.name)
origName(st, node) ==
    [st |-> Alloc(st, "name"), name |-> nd(node).origname, ptr |-> st.nalloc + 1]

\* the group a structure or sequence type is defined in
typeGroup(type) ==
    IF nd(type).origname # NULL THEN nd(type).origgroup ELSE groupFor(type)

\* done: nullfree(name); return ret
structDone(r, n) == [st |-> Free(r.st, n.ptr), ret |-> r.ret]

\* buildStructureType that defines the type whatever the probe answered
structProbedIgnored(s1, n, structtype) ==
    structDone(buildCompound(s1, structtype, typeGroup(structtype), n.name), n)

\* step 2 of buildStructureType, s1 being the state after nc_inq_typeid
structProbed(s1, n, structtype) ==
    structDone(IF Last(s1.log).status = NC_NOERR
               THEN Ok(SetId(s1, structtype, Last(s1.log).result))
               ELSE buildCompound(s1, structtype, typeGroup(structtype), n.name),
               n)

\* buildStructureType once the name n is known
structNamed(n, structtype) ==
    structProbed(InqTypeid(n.st, typeGroup(structtype), n.name, structtype),
                 n, structtype)

buildStructureType(st, structtype) ==
    structNamed(IF nd(structtype).origname # NULL THEN origName(st, structtype)
                ELSE getFieldFQN(st, structtype, TAIL_T),
                structtype)

\* NCD4_findAttr(node, name) != NULL
HasAttr(node, name) ==
    \E k \in 1..Len(nd(node).attributes) : nd(node).attributes[k].name = name

\* usevlen of buildSequenceType
usevlen(seqtype) ==
    HasAttr(seqtype, UCARTAGVLEN) /\ Len(nd(seqtype).vars) = 1

\* done: nullfree(vlentypename); nullfree(cmpdtypename); return ret
seqDone(r, v, c) ==
    [st |-> Free(Free(r.st, v.ptr), c.ptr), ret |-> r.ret, fault |-> FALSE]

\* nc_def_vlen(group->meta.id, vlentypename, tid, &seqtype->meta.id)
seqVlen(st, v, c, seqtype, tid, reads) ==
    seqDone(Defined(Issue(st, [Call("def_vlen", st.meta[typeGroup(seqtype)].id,
                                    v.name)
                                 EXCEPT !.tid = tid, !.node = seqtype,
                                        !.reads = reads]),
                    seqtype),
            v, c)

\* seqtype->meta.cmpdid = seqtype->meta.id
saveCmpdid(st, seqtype) ==
    [st EXCEPT !.meta[seqtype].cmpdid = st.meta[seqtype].id,
               !.writes = Append(@, [node |-> seqtype, slot |-> "cmpdid",
                                     value |-> st.meta[seqtype].id])]

\* buildSequenceType that hands meta.id to nc_def_vlen without saving it
\* in meta.cmpdid first
seqCompoundUnsaved(b, v, c, seqtype) ==
    IF b.ret # NC_NOERR THEN seqDone(b, v, c)
    ELSE seqVlen(b.st, v, c, seqtype, b.st.meta[seqtype].id,
                 {typeGroup(seqtype), seqtype})

\* step 5 when a compound type is needed, b being what buildCompound returned
seqCompound(b, v, c, seqtype) ==
    IF b.ret # NC_NOERR THEN seqDone(b, v, c)
    ELSE seqVlen(saveCmpdid(b.st, seqtype), v, c, seqtype,
                 b.st.meta[seqtype].id, {typeGroup(seqtype), seqtype})

\* steps 2 to 5, s1 being the state after nc_inq_typeid.  With usevlen,
\* field1 is still NULL when field1->basetype is read: the process dies or
\* tid is whatever the read yields (ubTid)
seqProbed(s1, v, c, seqtype) ==
    IF Last(s1.log).status = NC_NOERR
    THEN seqDone(Ok(SetId(s1, seqtype, Last(s1.log).result)), v, c)
    ELSE IF usevlen(seqtype)
    THEN IF ubTid = Fault THEN [st |-> s1, ret |-> NC_NOERR, fault |-> TRUE]
         ELSE seqVlen(s1, v, c, seqtype, ubTid, {typeGroup(seqtype)})
    ELSE seqCompound(buildCompound(s1, seqtype, typeGroup(seqtype), c.name),
                     v, c, seqtype)

\* buildSequenceType once the names v (the vlen's) and c (the compound's) are known
seqNamed(v, c, seqtype) ==
    seqProbed(InqTypeid(c.st, typeGroup(seqtype), v.name, seqtype), v, c, seqtype)

\* step 1 after vlentypename: cmpdtypename stays NULL with an alternate identity
seqVlenNamed(v, seqtype) ==
    seqNamed(v,
             IF nd(seqtype).origname # NULL
             THEN [st |-> v.st, name |-> NULL, ptr |-> 0]
             ELSE getFieldFQN(v.st, seqtype, TAIL_CMPD_T),
             seqtype)

\* buildSequenceType: [st, ret, fault |-> the process died in it]
buildSequenceType(st, seqtype) ==
    seqVlenNamed(IF nd(seqtype).origname # NULL THEN origName(st, seqtype)
                 ELSE getFieldFQN(st, seqtype, TAIL_T),
                 seqtype)

\* after nc_def_var, with outcome d
varDefined(d, var) == IF d.ret # NC_NOERR THEN d ELSE buildMetaData(d.st, var)

\* the nc_def_var call of buildAtomicVar, buildStructure and buildSequence
defVarCall(st, var) ==
    [Call("def_var", st.meta[groupFor(var)].id, nd(var).name)
       EXCEPT !.tid = st.meta[nd(var).basetype].id,
              !.rank = Len(nd(var).dims), !.dims = getDimrefs(st.meta, var),
              !.node = var,
              !.reads = {groupFor(var), nd(var).basetype}
                           \cup {nd(var).dims[k] : k \in 1..Len(nd(var).dims)}]

buildAtomicVar(st, var) ==
    varDefined(Defined(Issue(st, defVarCall(st, var)), var), var)

buildStructure(st, structvar) ==
    varDefined(Defined(Issue(st, defVarCall(st, structvar)), structvar), structvar)

buildSequence(st, seq) ==
    varDefined(Defined(Issue(st, defVarCall(st, seq)), seq), seq)

buildVariable(st, var) ==
    CASE nd(var).subsort = NC_STRUCT -> buildStructure(st, var)
      [] nd(var).subsort = NC_SEQ -> buildSequence(st, var)
      [] OTHER -> buildAtomicVar(st, var)

\* ISTOPLEVEL: the container is a group
ISTOPLEVEL(x) == nd(x).container = 0 \/ ISGROUP(nd(nd(x).container).sort)

(***************************************************************************)
(* NCD4_toposort (d4util.c): every node once, a type after the types it    *)
(* uses, a variable after its type and dimensions; nodes that do not       *)
(* depend on each other keep their order.                                  *)
(***************************************************************************)
SeqRange(q) == {q[k] : k \in 1..Len(q)}

Uses(nodes, n) ==
    (IF nodes[n].basetype # 0 THEN {nodes[n].basetype} ELSE {})
        \cup SeqRange(nodes[n].dims)
        \cup IF nodes[n].sort = NCD4_TYPE
             THEN {nodes[f].basetype : f \in SeqRange(nodes[n].vars)}
             ELSE {}

RECURSIVE toposortFrom(_, _, _)
toposortFrom(nodes, todo, out) ==
    IF todo = <<>> THEN out
    ELSE LET ready == {k \in 1..Len(todo) :
                          Uses(nodes, todo[k]) \cap SeqRange(todo) \subseteq {todo[k]}}
             k == IF ready = {} THEN 1
                  ELSE CHOOSE a \in ready : \A b \in ready : a <= b
         IN  toposortFrom(nodes,
                          SubSeq(todo, 1, k - 1) \o SubSeq(todo, k + 1, Len(todo)),
                          Append(out, todo[k]))

NCD4_toposort(sch) == toposortFrom(sch.nodes, sch.allnodes, <<>>)

(***************************************************************************)
(* The schemas the pass is run on                                          *)
(***************************************************************************)
Schema(nodes, order, failOps) ==
    [nodes |-> nodes, allnodes |-> order, root |-> 1, failOps |-> failOps]

\* nodes 1..8: the dataset group and the atomic types
AtomicNodes ==
    [byte |-> 2, ubyte |-> 3, short |-> 4, int |-> 5, uint64 |-> 6,
     string |-> 7, double |-> 8]
AtomicType(subsort, name) == Node(NCD4_TYPE, subsort, name, 1)
BaseNodes(subgroups) ==
    << [Node(NCD4_GROUP, 0, <<"d", "s">>, 0)
          EXCEPT !.isdataset = TRUE, !.groups = subgroups],
       AtomicType(NC_BYTE, <<"I", "n", "t", "8">>),
       AtomicType(NC_UBYTE, <<"U", "I", "n", "t", "8">>),
       AtomicType(NC_SHORT, <<"I", "n", "t", "1", "6">>),
       AtomicType(NC_INT, <<"I", "n", "t", "3", "2">>),
       AtomicType(NC_UINT64, <<"U", "I", "n", "t", "6", "4">>),
       AtomicType(NC_STRING, <<"S", "t", "r", "i", "n", "g">>),
       AtomicType(NC_DOUBLE, <<"F", "l", "o", "a", "t", "6", "4">>) >>

Var(name, container, basetype, subsort) ==
    [Node(NCD4_VAR, subsort, name, container) EXCEPT !.basetype = basetype]
Dim(name, container, size) ==
    [Node(NCD4_DIM, 0, name, container) EXCEPT !.dimsize = size]

RED == <<"R", "E", "D">>
GREEN == <<"G", "R", "E", "E", "N">>
BLUE == <<"B", "L", "U", "E">>
PINK == <<"P", "I", "N", "K">>
Colours == <<Econst(RED, 0), Econst(GREEN, 1), Econst(BLUE, 1)>>

\* Family A: a dimension, an enumeration, variable A (with attributes and
\* maps) in the root group and variable B in subgroup g
AttrTexts ==
    {<<"0">>, <<"1">>, <<"-", "1">>, <<"3", "0", "0">>, <<"1", "x">>,
     RED, GREEN, BLUE, PINK}
AttrValueLists ==
    {<<t>> : t \in AttrTexts}
        \cup {<<GREEN, <<"1">> >>, << <<"1">>, PINK>>, << <<"3", "0", "0">>, <<"-", "1">> >>}
AttrTypes ==
    {AtomicNodes.byte, AtomicNodes.ubyte, AtomicNodes.short, AtomicNodes.int,
     AtomicNodes.uint64, AtomicNodes.string, 11}
UnitsAttr == Attr(<<"u", "n", "i", "t", "s">>, AtomicNodes.string, << <<"s">> >>)
AttrLists ==
    {<<Attr(<<"a">>, t, vs)>> : t \in AttrTypes, vs \in AttrValueLists}
        \cup {<<Attr(UCARTAG \o <<"x">>, AtomicNodes.int, << <<"1">> >>), UnitsAttr>>,
              <<Attr(<<"a">>, AtomicNodes.int, <<PINK>>), UnitsAttr>>,
              <<UnitsAttr, Attr(<<"b">>, 11, <<GREEN>>)>>,
              <<Attr(UCARTAGVLEN, AtomicNodes.int, <<PINK>>),
                Attr(<<"b">>, AtomicNodes.int, << <<"1">> >>)>>,
              <<>>}
MapLists ==
    UNION {[1..n -> {12, 13}] : n \in 0..MaxMaps}

SchemaA(attrs, maps) ==
    Schema(
        BaseNodes(<<9>>) \o
        << Node(NCD4_GROUP, 0, <<"g">>, 1),
           Dim(<<"t", "i", "m", "e">>, 1, 10),
           [Node(NCD4_TYPE, NC_ENUM, <<"E">>, 1)
              EXCEPT !.basetype = AtomicNodes.ubyte, !.econsts = Colours],
           [Var(<<"A">>, 1, AtomicNodes.double, NC_DOUBLE)
              EXCEPT !.dims = <<10>>, !.attributes = attrs, !.maps = maps],
           [Var(<<"B">>, 9, AtomicNodes.int, NC_INT) EXCEPT !.attributes = <<UnitsAttr>>] >>,
        <<1, 2, 3, 4, 5, 6, 7, 8, 9, 10, 11, 12, 13>>,
        {"def_grp", "def_dim", "def_enum", "insert_enum", "def_var", "put_att"})

SchemasA ==
    {SchemaA(attrs, <<>>) : attrs \in AttrLists}
        \cup {SchemaA(<<UnitsAttr>>, maps) : maps \in MapLists}

\* Family S: a structure type s with a chosen field list, used by variable v.
\* Fields: 15..21 scalars of each kind of base type, 22 a structure-typed
\* field (type 24), 23 a sequence-typed field (type 27), 30 and 32 arrays.
TypeOps == {"def_dim", "def_enum", "def_opaque", "def_vlen", "def_compound",
            "insert_compound", "insert_array_compound", "def_var"}
ScalarFields == 15..23
FieldLists ==
    {<<f>> : f \in ScalarFields}
        \cup {p \in ScalarFields \X ScalarFields : p[1] # p[2]}
        \cup {<<30, 15>>, <<15, 30>>, <<32, 16>>, <<16, 22, 15>>,
              <<15, 16, 17, 18>>, <<23, 22, 20>>}

Field(name, container, basetype) ==
    Var(name, container, basetype, 0)

SchemaS(fl) ==
    Schema(
        BaseNodes(<<>>) \o
        << Dim(<<"d">>, 1, 3),
           [Node(NCD4_TYPE, NC_ENUM, <<"E">>, 1)
              EXCEPT !.basetype = AtomicNodes.short,
                     !.econsts = <<Econst(RED, 0), Econst(GREEN, 1)>>],
           [Node(NCD4_TYPE, NC_OPAQUE, <<"O", "5">>, 1) EXCEPT !.opaquesize = 5],
           Node(NCD4_TYPE, NC_OPAQUE, <<"O", "0">>, 1),
           [Node(NCD4_TYPE, NC_STRUCT, <<"s">>, 1) EXCEPT !.vars = fl],
           Var(<<"v">>, 1, 13, NC_STRUCT),
           [Field(<<"i">>, 13, AtomicNodes.int)
              EXCEPT !.subsort = NC_INT, !.attributes = <<UnitsAttr>>],
           [Field(<<"b">>, 13, AtomicNodes.ubyte) EXCEPT !.subsort = NC_UBYTE],
           [Field(<<"t">>, 13, AtomicNodes.string) EXCEPT !.subsort = NC_STRING],
           [Field(<<"x">>, 13, AtomicNodes.double) EXCEPT !.subsort = NC_DOUBLE],
           [Field(<<"e">>, 13, 10) EXCEPT !.subsort = NC_ENUM],
           [Field(<<"o">>, 13, 11) EXCEPT !.subsort = NC_OPAQUE],
           [Field(<<"z">>, 13, 12) EXCEPT !.subsort = NC_OPAQUE],
           [Field(<<"n">>, 13, 24) EXCEPT !.subsort = NC_STRUCT],
           [Field(<<"q">>, 13, 27) EXCEPT !.subsort = NC_SEQ],
           [Node(NCD4_TYPE, NC_STRUCT, <<"n">>, 22) EXCEPT !.vars = <<25, 26>>],
           [Field(<<"h">>, 24, AtomicNodes.short) EXCEPT !.subsort = NC_SHORT],
           [Field(<<"w">>, 24, AtomicNodes.int) EXCEPT !.subsort = NC_INT],
           [Node(NCD4_TYPE, NC_SEQ, <<"q">>, 23) EXCEPT !.vars = <<28, 29>>],
           [Field(<<"k">>, 27, AtomicNodes.int) EXCEPT !.subsort = NC_INT],
           [Field(<<"c">>, 27, AtomicNodes.ubyte) EXCEPT !.subsort = NC_UBYTE],
           [Field(<<"r">>, 13, AtomicNodes.int) EXCEPT !.subsort = NC_INT, !.dims = <<9>>],
           Dim(<<"e">>, 1, 2),
           [Field(<<"m">>, 13, AtomicNodes.short)
              EXCEPT !.subsort = NC_SHORT, !.dims = <<9, 31>>] >>,
        <<1, 2, 3, 4, 5, 6, 7, 8, 9, 31, 10, 11, 12, 13, 14>> \o fl
            \o (IF 22 \in SeqRange(fl) THEN <<24, 25, 26>> ELSE <<>>)
            \o (IF 23 \in SeqRange(fl) THEN <<27, 28, 29>> ELSE <<>>),
        TypeOps)

SchemasS == {SchemaS(fl) : fl \in FieldLists}

\* Family D: two composite types T1 (node 10) and T2 (node 11), each used by a
\* variable.  T1 lies in the root group; T2 lies in the root group or in
\* subgroup g, and may carry an alternate identity in the root group.
TypeNames == {<<"a">>, <<"a", ".", "b">>, <<"a", "/", "b">>}
KindPairs == {<<NC_STRUCT, NC_STRUCT>>, <<NC_SEQ, NC_SEQ>>, <<NC_STRUCT, NC_SEQ>>}
Homes == {[container |-> 1, origname |-> NULL],
          [container |-> 9, origname |-> NULL],
          [container |-> 9, origname |-> <<"a", "_", "t">>]}

SchemaD(kinds, n1, n2, home) ==
    Schema(
        BaseNodes(<<9>>) \o
        << Node(NCD4_GROUP, 0, <<"g">>, 1),
           [Node(NCD4_TYPE, kinds[1], n1, 1) EXCEPT !.vars = <<12, 13>>],
           [Node(NCD4_TYPE, kinds[2], n2, home.container)
              EXCEPT !.vars = <<14>>, !.origname = home.origname,
                     !.origgroup = IF home.origname = NULL THEN 0 ELSE 1],
           [Field(<<"i">>, 10, AtomicNodes.int) EXCEPT !.subsort = NC_INT],
           [Field(<<"b">>, 10, AtomicNodes.ubyte) EXCEPT !.subsort = NC_UBYTE],
           [Field(<<"x">>, 11, AtomicNodes.double) EXCEPT !.subsort = NC_DOUBLE],
           Var(<<"v", "1">>, 1, 10, kinds[1]),
           Var(<<"v", "2">>, home.container, 11, kinds[2]) >>,
        <<1, 2, 3, 4, 5, 6, 7, 8, 9, 10, 11, 12, 13, 14, 15, 16>>,
        {"def_grp", "def_compound", "insert_compound", "def_vlen", "def_var"})

SchemasD ==
    {SchemaD(kinds, n1, n2, home) :
        kinds \in KindPairs, n1 \in TypeNames, n2 \in TypeNames, home \in Homes}

\* Family O: k zero-size opaque types (nodes 9..8+k), a fixed-size opaque
\* type (node 9+k), with or without an alternate identity, and a variable of
\* each opaque type
DigitChar(n) ==
    CASE n = 0 -> "0" [] n = 1 -> "1" [] n = 2 -> "2" [] n = 3 -> "3"
      [] n = 4 -> "4" [] n = 5 -> "5" [] n = 6 -> "6" [] n = 7 -> "7"
      [] n = 8 -> "8" [] n = 9 -> "9"

SchemaO(k, origname) ==
    Schema(
        BaseNodes(<<>>) \o
        [j \in 1..k |-> Node(NCD4_TYPE, NC_OPAQUE, <<"o", DigitChar(j)>>, 1)] \o
        << [Node(NCD4_TYPE, NC_OPAQUE, <<"f">>, 1)
              EXCEPT !.opaquesize = 4, !.origname = origname,
                     !.origgroup = IF origname = NULL THEN 0 ELSE 1] >> \o
        [j \in 1..(k + 1) |-> Var(<<"v", DigitChar(j)>>, 1, 8 + j, NC_OPAQUE)],
        [j \in 1..(10 + 2 * k) |-> j],
        {"def_opaque", "def_vlen", "def_var"})

SchemasO ==
    {SchemaO(k, o) : k \in 1..MaxOpaques, o \in {NULL, <<"f", "f">>}}

\* Family Q: a sequence type q (node 9) with one or two fields, with or
\* without the direct-vlen marker and an alternate identity, used by variable sv
SchemaQ(marker, nfields, origname) ==
    Schema(
        BaseNodes(<<>>) \o
        << [Node(NCD4_TYPE, NC_SEQ, <<"q">>, 1)
              EXCEPT !.vars = [j \in 1..nfields |-> 9 + j],
                     !.attributes = IF marker
                                    THEN <<Attr(UCARTAGVLEN, AtomicNodes.string, << <<"1">> >>)>>
                                    ELSE <<>>,
                     !.origname = origname,
                     !.origgroup = IF origname = NULL THEN 0 ELSE 1],
           [Field(<<"i">>, 9, AtomicNodes.int) EXCEPT !.subsort = NC_INT],
           [Field(<<"b">>, 9, AtomicNodes.ubyte) EXCEPT !.subsort = NC_UBYTE],
           Var(<<"s", "v">>, 1, 9, NC_SEQ) >>,
        <<1, 2, 3, 4, 5, 6, 7, 8, 9, 10, 11, 12>>,
        {"def_compound", "insert_compound", "def_vlen", "def_var"})

SchemasQ ==
    {SchemaQ(marker, nfields, o) :
        marker \in BOOLEAN, nfields \in 1..2, o \in {NULL, <<"q", "q">>}}

\* Family G: groups g and k, and group h either inside g or beside it; a
\* dimension and a variable (over two dimensions) in h, a variable and a
\* dimension in k
SchemaG(nested) ==
    Schema(
        BaseNodes(IF nested THEN <<9, 11>> ELSE <<9, 10, 11>>) \o
        << [Node(NCD4_GROUP, 0, <<"g">>, 1)
              EXCEPT !.groups = IF nested THEN <<10>> ELSE <<>>],
           Node(NCD4_GROUP, 0, <<"h">>, IF nested THEN 9 ELSE 1),
           Node(NCD4_GROUP, 0, <<"k">>, 1),
           Dim(<<"n">>, 10, 2),
           [Var(<<"x">>, 10, AtomicNodes.int, NC_INT) EXCEPT !.dims = <<15, 12>>],
           Var(<<"y">>, 11, AtomicNodes.short, NC_SHORT),
           Dim(<<"m">>, 11, 3) >>,
        <<1, 2, 3, 4, 5, 6, 7, 8, 9, 10, 11, 12, 13, 14, 15>>,
        {"def_grp", "def_dim", "def_var"})

SchemasG == {SchemaG(nested) : nested \in BOOLEAN}

Schemas ==
    SchemasA \cup SchemasS \cup SchemasD \cup SchemasO \cup SchemasQ \cup SchemasG

(***************************************************************************)
(* The pass: NCD4_metabuild and build                                      *)
(***************************************************************************)
Cur == [meta |-> meta, log |-> log, heap |-> heap, nalloc |-> nalloc,
        assigned |-> assigned, writes |-> writes]

\* the build functions leave state st
Becomes(st) ==
    /\ meta' = st.meta
    /\ log' = st.log
    /\ heap' = st.heap
    /\ nalloc' = st.nalloc
    /\ assigned' = st.assigned
    /\ writes' = st.writes

Returned(fn, node, r) ==
    rets' = Append(rets, [fn |-> fn, node |-> node, ret |-> r.ret,
                          calls |-> Len(r.st.log), live |-> r.st.heap])

Inputs == <<schema, failOp, failNth, ubTid, byteOrder>>

\* a sequence type that takes the direct-vlen path of buildSequenceType
UsesVlen(sch) ==
    \E n \in 1..Len(sch.nodes) :
        /\ sch.nodes[n].sort = NCD4_TYPE /\ sch.nodes[n].subsort = NC_SEQ
        /\ Len(sch.nodes[n].vars) = 1
        /\ \E k \in 1..Len(sch.nodes[n].attributes) :
              sch.nodes[n].attributes[k].name = UCARTAGVLEN

\* some compound member of sch has dimensions
HasArrayField(sch) ==
    \E n \in 1..Len(sch.nodes) :
        \E k \in 1..Len(sch.nodes[n].vars) :
            sch.nodes[sch.nodes[n].vars[k]].dims # <<>>

\* the layouts of an 8-byte size_t over two 4-byte ints
ByteOrders == {"little", "big"}

\* what the read of field1->basetype->meta.id through NULL can yield
UBOutcomes == {Fault, NC_NAT, NC_INT, 77}

Init ==
    /\ schema \in Schemas
    /\ failOp \in {"none"} \cup schema.failOps
    /\ failNth \in IF failOp = "none" THEN {1} ELSE 1..MaxFail
    /\ ubTid \in IF UsesVlen(schema) THEN UBOutcomes ELSE {Fault}
    /\ byteOrder \in IF HasArrayField(schema) THEN ByteOrders ELSE {"little"}
    /\ allnodes = schema.allnodes
    /\ pc = "metabuild"
    /\ i = 0
    /\ ret = NC_NOERR
    /\ result = NC_NOERR
    /\ meta = [n \in 1..Len(schema.nodes) |-> [id |-> 0, cmpdid |-> 0, offset |-> 0]]
    /\ log = <<>>
    /\ heap = {}
    /\ nalloc = 0
    /\ assigned = {}
    /\ writes = <<>>
    /\ rets = <<>>

\* the id NCD4_metabuild gives node n before the build: the root's is ncid,
\* an atomic type's is its subsort
FixedId(n, old) ==
    IF nd(n).sort = NCD4_TYPE /\ nd(n).subsort <= NC_MAX_ATOMIC_TYPE
    THEN nd(n).subsort
    ELSE IF n = schema.root THEN TheNcid ELSE old

IsFixed(n) ==
    n = schema.root \/ (nd(n).sort = NCD4_TYPE /\ nd(n).subsort <= NC_MAX_ATOMIC_TYPE)

\* the assignments of NCD4_metabuild: the root's id, then the atomic types'
FixedWrites ==
    <<[node |-> schema.root, slot |-> "id", value |-> TheNcid]>> \o
    [k \in 1..Len(SelectSeq(allnodes, LAMBDA n : IsFixed(n) /\ n # schema.root)) |->
        [node |-> SelectSeq(allnodes, LAMBDA n : IsFixed(n) /\ n # schema.root)[k],
         slot |-> "id",
         value |-> nd(SelectSeq(allnodes,
                                LAMBDA n : IsFixed(n) /\ n # schema.root)[k]).subsort]]

\* NCD4_metabuild up to the call of build
MetabuildEnter ==
    /\ pc = "metabuild"
    /\ meta' = [n \in DOMAIN meta |->
                   IF n = schema.root \/ n \in SeqRange(allnodes)
                   THEN [meta[n] EXCEPT !.id = FixedId(n, @)] ELSE meta[n]]
    /\ assigned' = {n \in DOMAIN meta :
                      (n = schema.root \/ n \in SeqRange(allnodes)) /\ IsFixed(n)}
    /\ writes' = FixedWrites
    /\ allnodes' = NCD4_toposort(schema)
    /\ pc' = "groups"
    /\ UNCHANGED <<Inputs, i, ret, result, log, heap, nalloc, rets>>

\* build once buildGroups returned r
GroupsBuilt(r) ==
    /\ Becomes(r.st)
    /\ Returned("buildGroups", schema.root, r)
    /\ ret' = r.ret
    /\ pc' = IF r.ret # NC_NOERR THEN "done" ELSE "types"
    /\ i' = 1
    /\ UNCHANGED <<Inputs, allnodes, result>>

\* build: the call of buildGroups
BuildGroups ==
    /\ pc = "groups"
    /\ GroupsBuilt(buildGroups(Cur, schema.root))

\* one round of the first loop of build, whose node is built by fn
TypeLoopStep(fn, r) ==
    /\ Becomes(r.st)
    /\ Returned(fn, allnodes[i], r)
    /\ ret' = r.ret
    /\ pc' = IF r.ret # NC_NOERR THEN "done" ELSE "types"
    /\ i' = i + 1
    /\ UNCHANGED <<Inputs, allnodes, result>>

InTypeLoop == pc = "types" /\ i <= Len(allnodes)

BuildDimension ==
    /\ InTypeLoop
    /\ nd(allnodes[i]).sort = NCD4_DIM
    /\ TypeLoopStep("buildDimension", buildDimension(Cur, allnodes[i]))

BuildEnumeration ==
    /\ InTypeLoop
    /\ nd(allnodes[i]).sort = NCD4_TYPE /\ nd(allnodes[i]).subsort = NC_ENUM
    /\ TypeLoopStep("buildEnumeration", buildEnumeration(Cur, allnodes[i]))

BuildOpaque ==
    /\ InTypeLoop
    /\ nd(allnodes[i]).sort = NCD4_TYPE /\ nd(allnodes[i]).subsort = NC_OPAQUE
    /\ TypeLoopStep("buildOpaque", buildOpaque(Cur, allnodes[i]))

BuildStructureType ==
    /\ InTypeLoop
    /\ nd(allnodes[i]).sort = NCD4_TYPE /\ nd(allnodes[i]).subsort = NC_STRUCT
    /\ TypeLoopStep("buildStructureType", buildStructureType(Cur, allnodes[i]))

\* the round on a sequence type, r being what buildSequenceType yielded
SequenceTypeBuilt(r) ==
    IF r.fault
    THEN /\ Becomes(r.st)
         /\ pc' = "fault"
         /\ UNCHANGED <<Inputs, allnodes, result, i, ret, rets>>
    ELSE TypeLoopStep("buildSequenceType", r)

BuildSequenceType ==
    /\ InTypeLoop
    /\ nd(allnodes[i]).sort = NCD4_TYPE /\ nd(allnodes[i]).subsort = NC_SEQ
    /\ SequenceTypeBuilt(buildSequenceType(Cur, allnodes[i]))

\* the first loop passes over groups, variables and atomic types
SkipInTypeLoop ==
    /\ InTypeLoop
    /\ ~ (nd(allnodes[i]).sort = NCD4_DIM)
    /\ ~ (/\ nd(allnodes[i]).sort = NCD4_TYPE
          /\ nd(allnodes[i]).subsort \in {NC_ENUM, NC_OPAQUE, NC_STRUCT, NC_SEQ})
    /\ i' = i + 1
    /\ UNCHANGED <<Inputs, allnodes, pc, ret, result, meta, log, heap, nalloc,
                   assigned, writes, rets>>

TypeLoopEnd ==
    /\ pc = "types" /\ i > Len(allnodes)
    /\ pc' = "vars"
    /\ i' = 1
    /\ UNCHANGED <<Inputs, allnodes, ret, result, meta, log, heap, nalloc,
                   assigned, writes, rets>>

\* what build does with the status buildVariable returned: nothing
afterBuildVariable(r, oldret) == [ret |-> oldret, pc |-> "vars"]

\* the round on a top-level variable once buildVariable returned r
VariableBuilt(r) ==
    /\ Becomes(r.st)
    /\ Returned("buildVariable", allnodes[i], r)
    /\ ret' = afterBuildVariable(r, ret).ret
    /\ pc' = afterBuildVariable(r, ret).pc
    /\ i' = i + 1
    /\ UNCHANGED <<Inputs, allnodes, result>>

\* one round of the second loop of build on a top-level variable
BuildVariable ==
    /\ pc = "vars" /\ i <= Len(allnodes)
    /\ ISVAR(nd(allnodes[i]).sort) /\ ISTOPLEVEL(allnodes[i])
    /\ VariableBuilt(buildVariable(Cur, allnodes[i]))

SkipInVarLoop ==
    /\ pc = "vars" /\ i <= Len(allnodes)
    /\ ~ (ISVAR(nd(allnodes[i]).sort) /\ ISTOPLEVEL(allnodes[i]))
    /\ i' = i + 1
    /\ UNCHANGED <<Inputs, allnodes, pc, ret, result, meta, log, heap, nalloc,
                   assigned, writes, rets>>

VarLoopEnd ==
    /\ pc = "vars" /\ i > Len(allnodes)
    /\ pc' = "done"
    /\ UNCHANGED <<Inputs, allnodes, i, ret, result, meta, log, heap, nalloc,
                   assigned, writes, rets>>

\* done: return ret; NCD4_metabuild returns it
MetabuildReturn ==
    /\ pc = "done"
    /\ result' = ret
    /\ pc' = "returned"
    /\ UNCHANGED <<Inputs, allnodes, i, ret, meta, log, heap, nalloc, assigned,
                   writes, rets>>

Next ==
    \/ MetabuildEnter
    \/ BuildGroups
    \/ BuildDimension
    \/ BuildEnumeration
    \/ BuildOpaque
    \/ BuildStructureType
    \/ BuildSequenceType
    \/ SkipInTypeLoop
    \/ TypeLoopEnd
    \/ BuildVariable
    \/ SkipInVarLoop
    \/ VarLoopEnd
    \/ MetabuildReturn

Spec == Init /\ [][Next]_vars

(***************************************************************************)
(* Properties                                                              *)
(***************************************************************************)
Calls == 1..Len(log)
Steps == 1..Len(rets)
Nodes == 1..Len(schema.nodes)
CallsWhere(P(_)) == {k \in Calls : P(log[k])}

\* the build step on node n has returned
StepReturned(n) == \E k \in Steps : rets[k].node = n /\ rets[k].fn # "buildGroups"

\* C1: the first failing step of any stage aborts the pass: no store call is
\* issued after the step that failed, and NCD4_metabuild returns non-success.
C1_FirstFailureAborts ==
    \A k \in Steps :
        rets[k].ret # NC_NOERR =>
            /\ Len(log) = rets[k].calls
            /\ pc = "returned" => result # NC_NOERR

\* C2: with k >= 1 zero-size opaque types, "_bytestring" is defined by exactly
\* one define-vlen call, every zero-size opaque node ends with that id, and
\* the second and later zero-size opaque nodes do not make the pass fail.
IsBytestringDef(e) == e.op = "def_vlen" /\ e.name = BYTESTRING
ZeroOpaques ==
    {n \in SeqRange(schema.allnodes) :
        /\ nd(n).sort = NCD4_TYPE /\ nd(n).subsort = NC_OPAQUE
        /\ nd(n).opaquesize = 0}
C2_OneBytestring ==
    /\ Cardinality(CallsWhere(IsBytestringDef)) <= 1
    /\ \A k \in Steps :
          (rets[k].fn = "buildOpaque" /\ failOp = "none") => rets[k].ret = NC_NOERR
    /\ (pc = "returned" /\ failOp = "none" /\ ZeroOpaques # {}) =>
          /\ Cardinality(CallsWhere(IsBytestringDef)) = 1
          /\ \A n \in ZeroOpaques, k \in CallsWhere(IsBytestringDef) :
                meta[n].id = log[k].result

\* C3: for a sequence type with the direct-vlen marker and exactly one field,
\* buildSequenceType defines no compound type, issues one define-vlen call
\* whose element type is the id of that field's base type, completes without
\* fault and stores the new id in the node.
DirectVlenTypes ==
    {n \in SeqRange(schema.allnodes) :
        nd(n).sort = NCD4_TYPE /\ nd(n).subsort = NC_SEQ /\ usevlen(n)}
C3_DirectVlen ==
    /\ pc # "fault"
    /\ \A n \in DirectVlenTypes :
          /\ \A k \in Calls :
                log[k].node = n =>
                    /\ log[k].op \in {"inq_typeid", "def_vlen"}
                    /\ log[k].op = "def_vlen" =>
                          log[k].tid = meta[nd(nd(n).vars[1]).basetype].id
          /\ \A k \in Steps :
                (rets[k].node = n /\ rets[k].ret = NC_NOERR) =>
                    \E j \in Calls :
                        /\ log[j].node = n /\ log[j].op = "def_vlen"
                        /\ log[j].status = NC_NOERR
                        /\ meta[n].id = log[j].result

\* C4: when two structure (or two sequence) type nodes resolve to the same
\* name in the same group, the pass issues exactly one definition call for
\* that name; the second node finds the type by nc_inq_typeid, takes the
\* existing id as its meta.id and issues no define-compound, insert-field or
\* define-vlen call.
BuildOps == {"def_compound", "insert_compound", "insert_array_compound", "def_vlen"}
SameNamePairs ==
    {p \in Calls \X Calls :
        /\ p[1] < p[2]
        /\ log[p[1]].op = "inq_typeid" /\ log[p[2]].op = "inq_typeid"
        /\ log[p[1]].node # log[p[2]].node
        /\ nd(log[p[1]].node).subsort = nd(log[p[2]].node).subsort
        /\ log[p[1]].grp = log[p[2]].grp /\ log[p[1]].name = log[p[2]].name}
DefsOf(grp, name) ==
    {k \in Calls : log[k].op \in TypeDefOps /\ log[k].grp = grp /\ log[k].name = name}
C4_SecondAdopts ==
    \A p \in SameNamePairs :
        LET first == log[p[1]]
            second == log[p[2]]
        IN  /\ second.status = NC_NOERR
            /\ Cardinality(DefsOf(second.grp, second.name)) = 1
            /\ \A k \in DefsOf(second.grp, second.name) :
                  /\ log[k].node = first.node /\ log[k].status = NC_NOERR
                  /\ second.result = log[k].result
            /\ \A k \in Calls : log[k].node = second.node => ~(log[k].op \in BuildOps)
            /\ StepReturned(second.node) =>
                  meta[second.node].id = meta[first.node].id

C4_Witness ==
    \E p \in SameNamePairs :
        /\ StepReturned(log[p[2]].node)
        /\ nd(log[p[2]].node).subsort = NC_SEQ
        /\ meta[log[p[2]].node].id >= NC_FIRSTUSERTYPEID

\* C5: in every compound type built by buildCompound the offset passed for
\* a field is the sum of the sizes of the fields before it, and the size
\* passed to define-compound is the sum of the sizes of all fields, the size
\* of a field being given by the kind of its type.
RECURSIVE DeclaredSize(_)
RECURSIVE SumSizes(_, _)
SumSizes(fields, k) ==
    IF k = 0 THEN 0 ELSE SumSizes(fields, k - 1) + DeclaredSize(fields[k])
AtomicWidth(subsort) ==
    CASE subsort \in {NC_BYTE, NC_UBYTE, NC_CHAR} -> 1
      [] subsort \in {NC_SHORT, NC_USHORT} -> 2
      [] subsort \in {NC_INT, NC_UINT, NC_FLOAT} -> 4
      [] subsort \in {NC_INT64, NC_UINT64, NC_DOUBLE} -> 8
      [] subsort = NC_STRING -> SizeofPtr
DeclaredSize(f) ==
    LET t == nd(f).basetype
    IN  CASE nd(t).subsort = NC_SEQ -> SizeofVlen
          [] nd(t).subsort = NC_STRUCT -> SumSizes(nd(t).vars, Len(nd(t).vars))
          [] nd(t).subsort = NC_OPAQUE ->
                IF nd(t).opaquesize = 0 THEN SizeofVlen ELSE nd(t).opaquesize
          [] nd(t).subsort = NC_ENUM -> AtomicWidth(nd(nd(t).basetype).subsort)
          [] OTHER -> AtomicWidth(nd(t).subsort)
C5_OffsetsArePrefixSums ==
    \A k \in Calls :
        /\ log[k].op = "def_compound" =>
              log[k].size = SumSizes(nd(log[k].node).vars, Len(nd(log[k].node).vars))
        /\ log[k].op \in {"insert_compound", "insert_array_compound"} =>
              log[k].offset = SumSizes(nd(log[k].node).vars, log[k].attr - 1)

\* a compound type with an enum-based field followed by another field
C5_Witness ==
    \E k \in Calls :
        /\ log[k].op = "insert_compound" /\ log[k].attr = 2
        /\ log[k].status = NC_NOERR /\ log[k].offset = 2
        /\ nd(nd(nd(log[k].node).vars[1]).basetype).subsort = NC_ENUM

\* C6: for a variable with k >= 1 map references buildMaps issues exactly
\* one put-attribute call on that variable, of text type with count k, whose
\* values are the fully-qualified names of the mapped variables in map-list
\* order; for a variable with no map references it issues none.
MapsPuts(v) ==
    {k \in Calls : log[k].op = "put_att" /\ log[k].node = v /\ log[k].attr = 0}
VarDefs(v) ==
    {k \in Calls : log[k].op = "def_var" /\ log[k].node = v}
MetaDataDone(v) ==
    \E k \in Steps : rets[k].node = v /\ rets[k].fn = "buildVariable"
                        /\ rets[k].ret = NC_NOERR
C6_OneMapsAttribute ==
    \A v \in Nodes :
        nd(v).sort = NCD4_VAR =>
            /\ Cardinality(MapsPuts(v)) <= 1
            /\ nd(v).maps = <<>> => MapsPuts(v) = {}
            /\ (nd(v).maps # <<>> /\ MetaDataDone(v)) => MapsPuts(v) # {}
            /\ \A k \in MapsPuts(v) :
                  /\ log[k].tid = NC_STRING
                  /\ log[k].count = Len(nd(v).maps)
                  /\ log[k].data =
                        [j \in 1..Len(nd(v).maps) |-> NCD4_makeFQN(nd(v).maps[j])]
                  /\ \E d \in VarDefs(v) :
                        /\ d < k /\ log[d].status = NC_NOERR
                        /\ log[k].xid = log[d].result /\ log[k].grp = log[d].grp

\* variable A mapped to B (in subgroup g) and then to itself
C6_Witness ==
    \E v \in Nodes :
        /\ MetaDataDone(v)
        /\ \E k \in MapsPuts(v) :
              /\ log[k].status = NC_NOERR
              /\ log[k].data = << <<"/", "g", "/", "B">>, <<"/", "A">> >>

\* C7: every scratch allocation made during a build step has been released
\* when that step returns, on the success path and on every failure path.
C7_ScratchReleased ==
    \A k \in Steps : rets[k].live = {}

\* C8: each text value of an enum-typed attribute resolves to the first
\* constant of that name, else to the first constant whose value equals the
\* number the text reads as; the element encoded is the first bytes of that
\* constant's value.  A text that resolves to no constant fails the encoding
\* and the attribute is not put.
SetMin(S) == CHOOSE x \in S : \A y \in S : x <= y
NameMatches(ecs, s) == {j \in 1..Len(ecs) : ecs[j].name = s}
ValueMatches(ecs, s) ==
    {j \in 1..Len(ecs) :
        ScanInteger(s).ok /\ ecs[j].ecvalue = Bits64(ScanInteger(s).val)}
Resolved(ecs, s) ==
    IF NameMatches(ecs, s) # {} THEN SetMin(NameMatches(ecs, s))
    ELSE IF ValueMatches(ecs, s) # {} THEN SetMin(ValueMatches(ecs, s))
    ELSE 0
EnumAttrs ==
    {p \in Nodes \X (1..2) :
        /\ nd(p[1]).sort = NCD4_VAR /\ p[2] <= Len(nd(p[1]).attributes)
        /\ nd(nd(p[1]).attributes[p[2]].basetype).subsort = NC_ENUM}
AttrPuts(v, a) ==
    {k \in Calls : log[k].op = "put_att" /\ log[k].node = v /\ log[k].attr = a}
Unresolved(v, a) ==
    LET at == nd(v).attributes[a]
    IN  \E j \in 1..Len(at.values) : Resolved(nd(at.basetype).econsts, at.values[j]) = 0
C8_EnumResolution ==
    \A p \in EnumAttrs :
        LET v == p[1]
            at == nd(v).attributes[p[2]]
            ecs == nd(at.basetype).econsts
            w == AtomicWidth(nd(nd(at.basetype).basetype).subsort)
        IN  /\ \A k \in AttrPuts(v, p[2]) :
                  /\ Len(log[k].data) = Len(at.values)
                  /\ \A j \in 1..Len(at.values) :
                        /\ Resolved(ecs, at.values[j]) # 0
                        /\ log[k].data[j].kind = "bits"
                        /\ log[k].data[j].bits =
                              SubSeq(ecs[Resolved(ecs, at.values[j])].ecvalue, 1, w)
            /\ Unresolved(v, p[2]) =>
                  /\ AttrPuts(v, p[2]) = {}
                  /\ \A k \in Steps :
                        rets[k].node = v =>
                            /\ rets[k].ret # NC_NOERR
                            /\ failOp = "none" => rets[k].ret \in {NC_EINVAL, NC_ERANGE}
            /\ (~Unresolved(v, p[2]) /\ MetaDataDone(v)) => AttrPuts(v, p[2]) # {}

\* the values "GREEN" and "1" put as the same byte
C8_Witness ==
    \E p \in EnumAttrs :
        /\ nd(p[1]).attributes[p[2]].values = <<GREEN, <<"1">> >>
        /\ \E k \in AttrPuts(p[1], p[2]) :
              /\ log[k].status = NC_NOERR
              /\ log[k].data[1].bits = <<1>> /\ log[k].data[2].bits = <<1>>

\* C9: two nodes in the same group whose container paths differ get
\* different names from getFieldFQN (with the same suffix).
PathNames(n) == [k \in 1..Len(fieldPath(n)) |-> nd(fieldPath(n)[k]).name]
Synthesized ==
    {k \in Calls : log[k].op = "inq_typeid" /\ nd(log[k].node).origname = NULL}
C9_NamesCollisionFree ==
    \A k1 \in Synthesized, k2 \in Synthesized :
        (/\ groupFor(log[k1].node) = groupFor(log[k2].node)
         /\ PathNames(log[k1].node) # PathNames(log[k2].node))
            => log[k1].name # log[k2].name

\* C10: every id handed to the store as a reference was assigned by an
\* earlier successful step of the pass, or is an atomic type's id or the
\* root handle; all dimensions and types are defined before the first
\* variable.
TypeRefOps == {"def_enum", "insert_compound", "insert_array_compound",
               "def_vlen", "def_var", "put_att"}
TypeIdsBefore(k) ==
    (NC_BYTE..NC_MAX_ATOMIC_TYPE)
        \cup {log[j].result : j \in {d \in 1..(k - 1) :
                                        /\ log[d].op \in TypeDefOps
                                        /\ log[d].status = NC_NOERR}}
DimIdsBefore(k) ==
    {log[j].result : j \in {d \in 1..(k - 1) :
                               log[d].op = "def_dim" /\ log[d].status = NC_NOERR}}
GroupIdsBefore(k) ==
    {TheNcid} \cup {log[j].result : j \in {d \in 1..(k - 1) :
                                  log[d].op = "def_grp" /\ log[d].status = NC_NOERR}}
C10_DefineBeforeUse ==
    \A k \in Calls :
        /\ log[k].reads \subseteq log[k].known
        /\ log[k].grp \in GroupIdsBefore(k)
        /\ log[k].op \in TypeRefOps => log[k].tid \in TypeIdsBefore(k)
        /\ log[k].op = "def_var" =>
              \A j \in 1..Len(log[k].dims) : log[k].dims[j] \in DimIdsBefore(k)
        /\ log[k].op \in TypeDefOps \cup {"def_dim"} =>
              \A j \in 1..(k - 1) : log[j].op # "def_var"

\* the same, for the passes that do not take the direct-vlen path
C10_HoldsWithoutDirectVlen ==
    UsesVlen(schema) \/ C10_DefineBeforeUse


\* C11: each non-dataset group is created by one create-subgroup call under
\* its parent's already-assigned handle, the dataset root takes the caller's
\* handle without any call, and all groups are created before the first
\* dimension, type or variable definition.
SubGroups == {g \in Nodes : nd(g).sort = NCD4_GROUP /\ ~nd(g).isdataset}
GroupDefs(g) == {k \in Calls : log[k].op = "def_grp" /\ log[k].node = g}
HandleAt(g, k) ==
    IF nd(g).isdataset THEN {TheNcid}
    ELSE {log[j].result : j \in {d \in GroupDefs(g) : d < k /\ log[d].status = NC_NOERR}}
C11_GroupsFirstParentFirst ==
    /\ \A k \in Calls :
          log[k].op = "def_grp" =>
              /\ log[k].node \in SubGroups
              /\ log[k].name = nd(log[k].node).name
              /\ log[k].grp \in HandleAt(nd(log[k].node).container, k)
              /\ \A j \in 1..(k - 1) : log[j].op = "def_grp"
    /\ \A g \in SubGroups : Cardinality(GroupDefs(g)) <= 1
    /\ pc # "metabuild" => meta[schema.root].id = TheNcid
    /\ \A s \in Steps :
          (rets[s].fn = "buildGroups" /\ rets[s].ret = NC_NOERR) =>
              \A g \in SubGroups :
                  \E k \in GroupDefs(g) :
                      /\ k <= rets[s].calls
                      /\ log[k].status = NC_NOERR /\ meta[g].id = log[k].result

\* group h created under the handle that the creation of g returned, and a
\* dimension defined afterwards
C11_Witness ==
    \E g \in SubGroups, h \in SubGroups :
        /\ nd(h).container = g
        /\ \E k \in GroupDefs(h), d \in Calls :
              /\ log[k].grp = meta[g].id /\ log[k].status = NC_NOERR
              /\ k < d /\ log[d].op = "def_dim" /\ log[d].grp = log[k].result


\* C12: build-result slots are write-once: in one pass each node's meta.id,
\* meta.cmpdid and meta.offset is assigned at most once.
Rewrites ==
    {p \in (1..Len(writes)) \X (1..Len(writes)) :
        /\ p[1] < p[2]
        /\ writes[p[1]].node = writes[p[2]].node
        /\ writes[p[1]].slot = writes[p[2]].slot}
C12_WriteOnce == Rewrites = {}

\* C12 as amended: meta.cmpdid is assigned at most once; meta.id is assigned
\* at most once, but for a sequence type built through an inner compound,
\* whose meta.id first takes the compound's id, copied to meta.cmpdid, and
\* then the vlen's id; meta.offset is only ever assigned the same value again.
WritesTo(n, slot) ==
    {a \in 1..Len(writes) : writes[a].node = n /\ writes[a].slot = slot}
C12_WriteOnceButStaging ==
    \A p \in Rewrites :
        LET first == writes[p[1]]
        IN  /\ first.slot # "cmpdid"
            /\ first.slot = "offset" => writes[p[2]].value = first.value
            /\ first.slot = "id" =>
                  /\ nd(first.node).sort = NCD4_TYPE
                  /\ nd(first.node).subsort = NC_SEQ
                  /\ Cardinality(WritesTo(first.node, "id")) = 2
                  /\ \E c \in WritesTo(first.node, "cmpdid") :
                        /\ p[1] < c /\ c < p[2]
                        /\ writes[c].value = first.value
                  /\ writes[p[2]].value # first.value

\* a pass in which a sequence type took both ids and a nested structure's
\* offsets were computed a second time
C12_Witness ==
    /\ \E p \in Rewrites : writes[p[1]].slot = "id"
    /\ \E p \in Rewrites : writes[p[1]].slot = "offset" /\ writes[p[1]].value > 0
    /\ pc = "returned"


\* a name under the reserved internal-tag prefix
IsReservedName(name) ==
    /\ Len(name) >= Len(UCARTAG)
    /\ SubSeq(name, 1, Len(UCARTAG)) = UCARTAG

\* C13: for an attribute of an integer type of width w with N decimal text
\* values, the buffer handed to put-attribute holds N elements of w bytes,
\* the i-th being the i-th value modulo 2^(8w), in input order.
IsDecimal(s) ==
    /\ s # <<>>
    /\ LET d == IF Head(s) = "-" THEN Tail(s) ELSE s
       IN  d # <<>> /\ \A k \in 1..Len(d) : d[k] \in Digits
RECURSIVE NaturalOf(_)
NaturalOf(d) ==
    IF d = <<>> THEN 0
    ELSE 10 * NaturalOf(SubSeq(d, 1, Len(d) - 1)) + DigitVal(d[Len(d)])
DecimalOf(s) == IF Head(s) = "-" THEN 0 - NaturalOf(Tail(s)) ELSE NaturalOf(s)
\* byte k (1 = lowest) of v modulo 2^(8w), for k <= w and |v| < 2^31
ResidueByte(v, k) ==
    IF k <= 4 THEN (v \div (256 ^ (k - 1))) % 256
    ELSE IF v < 0 THEN 255 ELSE 0
IntegerAttrs ==
    {p \in Nodes \X (1..2) :
        /\ nd(p[1]).sort = NCD4_VAR /\ p[2] <= Len(nd(p[1]).attributes)
        /\ ~IsReservedName(nd(p[1]).attributes[p[2]].name)
        /\ nd(nd(p[1]).attributes[p[2]].basetype).subsort
              \in SignedTypes \cup UnsignedTypes
        /\ \A j \in 1..Len(nd(p[1]).attributes[p[2]].values) :
              IsDecimal(nd(p[1]).attributes[p[2]].values[j])}
C13_IntegerEncoding ==
    \A p \in IntegerAttrs :
        LET at == nd(p[1]).attributes[p[2]]
            w == AtomicWidth(nd(at.basetype).subsort)
        IN  /\ \A k \in AttrPuts(p[1], p[2]) :
                  /\ Len(log[k].data) = Len(at.values)
                  /\ log[k].count = Len(at.values)
                  /\ \A j \in 1..Len(at.values) :
                        /\ log[k].data[j].kind = "bits"
                        /\ log[k].data[j].bits =
                              [b \in 1..w |-> ResidueByte(DecimalOf(at.values[j]), b)]
            /\ MetaDataDone(p[1]) => AttrPuts(p[1], p[2]) # {}

\* "300" and "-1" put as bytes: 44 and 255
C13_Witness ==
    \E p \in IntegerAttrs :
        /\ nd(nd(p[1]).attributes[p[2]].basetype).subsort = NC_BYTE
        /\ \E k \in AttrPuts(p[1], p[2]) :
              /\ log[k].status = NC_NOERR /\ Len(log[k].data) = 2
              /\ log[k].data[1].bits = <<44>> /\ log[k].data[2].bits = <<255>>


\* C14: no attribute whose name starts with the reserved prefix is encoded
\* or put; every other attribute of a built variable is put exactly once, in
\* attribute-list order, up to the first attribute that fails.
TopVars == {v \in Nodes : nd(v).sort = NCD4_VAR /\ ISTOPLEVEL(v)}
NonReserved(v) ==
    SelectSeq([k \in 1..Len(nd(v).attributes) |-> k],
              LAMBDA k : ~IsReservedName(nd(v).attributes[k].name))
PutsOf(v) ==
    SelectSeq(log, LAMBDA e : e.op = "put_att" /\ e.node = v /\ e.attr >= 1)
Encodable(at) ==
    CASE nd(at.basetype).subsort = NC_ENUM ->
            \A j \in 1..Len(at.values) :
                Resolved(nd(at.basetype).econsts, at.values[j]) # 0
      [] nd(at.basetype).subsort = NC_STRING -> TRUE
      [] OTHER -> \A j \in 1..Len(at.values) : ScanInteger(at.values[j]).ok
C14_ReservedFiltered ==
    \A v \in TopVars :
        LET puts == PutsOf(v)
            want == NonReserved(v)
        IN  /\ Len(puts) <= Len(want)
            /\ \A k \in 1..Len(puts) :
                  /\ puts[k].attr = want[k]
                  /\ puts[k].name = nd(v).attributes[want[k]].name
                  /\ k < Len(puts) => puts[k].status = NC_NOERR
            /\ MetaDataDone(v) => Len(puts) = Len(want)
            /\ (/\ \E r \in Steps : rets[r].node = v
                /\ failOp = "none"
                /\ \A k \in 1..Len(want) : Encodable(nd(v).attributes[want[k]]))
                  => MetaDataDone(v)

\* a reserved attribute with a value that cannot be encoded is skipped and
\* the attribute after it is put
C14_Witness ==
    \E v \in TopVars :
        /\ MetaDataDone(v)
        /\ Len(nd(v).attributes) = 2
        /\ IsReservedName(nd(v).attributes[1].name)
        /\ ~Encodable(nd(v).attributes[1])
        /\ Len(PutsOf(v)) = 1 /\ PutsOf(v)[1].attr = 2


\* C15: every top-level variable is defined by one define-variable call in
\* its enclosing group, with its base type's id, its rank and the ids of its
\* dimensions in declared order; its attributes and map attribute are put
\* after that call succeeded, under the variable id it returned.
DimIdsOf(d, k) ==
    {log[j].result : j \in {c \in 1..(k - 1) :
                               /\ log[c].op = "def_dim" /\ log[c].node = d
                               /\ log[c].status = NC_NOERR}}
C15_VariableDefinition ==
    \A v \in TopVars :
        /\ Cardinality(VarDefs(v)) <= 1
        /\ (\E r \in Steps : rets[r].node = v) => VarDefs(v) # {}
        /\ (pc = "returned" /\ result = NC_NOERR) => VarDefs(v) # {}
        /\ \A k \in VarDefs(v) :
              /\ log[k].grp \in HandleAt(groupFor(v), k)
              /\ log[k].name = nd(v).name
              /\ log[k].tid = meta[nd(v).basetype].id
              /\ log[k].rank = Len(nd(v).dims)
              /\ Len(log[k].dims) = Len(nd(v).dims)
              /\ \A j \in 1..Len(nd(v).dims) :
                    log[k].dims[j] \in DimIdsOf(nd(v).dims[j], k)
        /\ \A k \in Calls :
              (log[k].op = "put_att" /\ log[k].node = v) =>
                  \E d \in VarDefs(v) :
                      /\ d < k /\ log[d].status = NC_NOERR
                      /\ log[k].xid = log[d].result /\ log[k].grp = log[d].grp

\* variable x over the dimensions m and n, defined second in its group's
\* pass order with the dimension ids in declared order
C15_Witness ==
    \E v \in TopVars :
        /\ Len(nd(v).dims) = 2
        /\ \E k \in VarDefs(v) :
              /\ log[k].status = NC_NOERR
              /\ log[k].dims[1] # log[k].dims[2]
              /\ log[k].dims[1] \in DimIdsOf(nd(v).dims[1], k)


\* C16: the escaped form of a component doubles each of the characters
\* backslash, '/', '.', '@' and copies the others, so every synthesized name
\* is the '.'-joined doubled components of the path followed by the suffix.
RECURSIVE Doubled(_)
Doubled(s) ==
    IF s = <<>> THEN <<>>
    ELSE (IF Head(s) \in {"\\", "/", ".", "@"} THEN <<Head(s), Head(s)>>
          ELSE <<Head(s)>>) \o Doubled(Tail(s))
RECURSIVE DoubledPath(_)
DoubledPath(names) ==
    IF names = <<>> THEN <<>>
    ELSE Doubled(Head(names))
            \o (IF Len(names) > 1 THEN <<".">> ELSE <<>>)
            \o DoubledPath(Tail(names))
C16_EscapeDoubles ==
    \A k \in Synthesized :
        \E tail \in {TAIL_T, TAIL_CMPD_T} :
            log[k].name = DoubledPath(PathNames(log[k].node)) \o tail


\* C17: after a successful pass every non-reserved attribute of every
\* variable node, a field of a structure or sequence included, has been put
\* exactly once.
VarNodes == {v \in Nodes : nd(v).sort = NCD4_VAR}
AllEncodable ==
    \A v \in VarNodes :
        \A a \in 1..Len(nd(v).attributes) : Encodable(nd(v).attributes[a])
C17_NestedAttributesPut ==
    (pc = "returned" /\ result = NC_NOERR /\ failOp = "none" /\ AllEncodable) =>
        \A v \in VarNodes :
            \A a \in 1..Len(nd(v).attributes) :
                ~IsReservedName(nd(v).attributes[a].name)
                    => Cardinality({k \in Calls : /\ log[k].op = "put_att"
                                                  /\ log[k].node = v
                                                  /\ log[k].attr = a}) = 1


\* C18: once buildSequenceType returned success for a sequence type that is
\* encoded through an inner compound, meta.id is the id of a variable-length
\* type and meta.cmpdid the id of a compound type of the store, whether the
\* step defined the types or adopted the wrapper it found by name.
IdsDefinedBy(op) ==
    {log[k].result : k \in {c \in Calls : log[c].op = op /\ log[c].status = NC_NOERR}}
C18_BothIdsRecorded ==
    \A r \in Steps :
        (/\ rets[r].fn = "buildSequenceType" /\ rets[r].ret = NC_NOERR
         /\ ~usevlen(rets[r].node))
            => /\ meta[rets[r].node].id \in IdsDefinedBy("def_vlen")
               /\ meta[rets[r].node].cmpdid \in IdsDefinedBy("def_compound")


\* C19: a member with rank r > 0 is inserted by insert-array-field with rank
\* r and r extents equal to the declared sizes of its dimensions; a member
\* with rank 0 by insert-scalar-field; the members of a compound are inserted
\* once each, in declared order.
InsertsOf(c) ==
    SelectSeq(log, LAMBDA e : /\ e.op \in {"insert_compound", "insert_array_compound"}
                              /\ e.node = c)
DeclaredExtents(f) == [j \in 1..Len(nd(f).dims) |-> nd(nd(f).dims[j]).dimsize]
C19_MemberInsertion ==
    \A c \in Nodes :
        /\ Len(InsertsOf(c)) <= Len(nd(c).vars)
        /\ \A k \in 1..Len(InsertsOf(c)) :
              LET e == InsertsOf(c)[k]
                  f == nd(c).vars[k]
              IN  /\ e.attr = k /\ e.name = nd(f).name
                  /\ e.op = IF nd(f).dims = <<>> THEN "insert_compound"
                            ELSE "insert_array_compound"
                  /\ e.rank = Len(nd(f).dims)
                  /\ e.dims = DeclaredExtents(f)


\* C20: in every compound type the pass defines, a member occupies the bytes
\* from its offset up to offset + element size * product of its declared
\* extents; the ranges of two members do not overlap and each ends within
\* the total size given to define-compound.
RECURSIVE ProductOf(_)
ProductOf(extents) ==
    IF extents = <<>> THEN 1 ELSE Head(extents) * ProductOf(Tail(extents))
MemberEnd(c, e) ==
    e.offset + DeclaredSize(nd(c).vars[e.attr])
                  * ProductOf(DeclaredExtents(nd(c).vars[e.attr]))
C20_MembersDisjoint ==
    \A d \in Calls :
        (log[d].op = "def_compound" /\ log[d].status = NC_NOERR) =>
            LET c == log[d].node
                ins == InsertsOf(c)
            IN  \A k1 \in 1..Len(ins) :
                    /\ MemberEnd(c, ins[k1]) <= log[d].size
                    /\ \A k2 \in (k1 + 1)..Len(ins) :
                          \/ MemberEnd(c, ins[k1]) <= ins[k2].offset
                          \/ MemberEnd(c, ins[k2]) <= ins[k1].offset


\* C21: every define-compound call that buildSequenceType issues for the
\* inner compound of a sequence type carries a name that is not null and
\* differs from the name under which the wrapper was looked up, with a
\* synthesized name as with an alternate identity.
WrapperNames(n) ==
    {log[k].name : k \in {c \in Calls : log[c].op = "inq_typeid" /\ log[c].node = n}}
C21_InnerCompoundNamed ==
    \A k \in Calls :
        (log[k].op = "def_compound" /\ nd(log[k].node).subsort = NC_SEQ) =>
            /\ log[k].name # NULL
            /\ log[k].name \notin WrapperNames(log[k].node)

====
